---- MODULE Spec2Model ----
(***************************************************************************)
(* A model of package "we" (src/we.go, the latest revision of the file,    *)
(* lines 268-436): wrapped errors that carry a message, the original cause *)
(* and an exit code.                                                       *)
(*                                                                         *)
(* Strings are sequences of one-character strings, so that HasPrefix,      *)
(* slicing and fmt.Sprintf are computed as the code computes them.         *)
(* An error value is a reference [k, id]: nil, a plain error (identity id) *)
(* or a pointer to the wrapped_error heap[id].                             *)
(***************************************************************************)
EXTENDS Integers, Sequences, FiniteSets, TLC

VARIABLES
    heap,             \* the wrapped_error objects allocated so far
    cur,              \* the evolving error: the result of the previous call
    MainPrefix,       \* var MainPrefix bool
    DefaultExitCode,  \* var DefaultExitCode int
    root,             \* the error the chain started from
    nops,             \* number of calls made so far
    limit,            \* how many calls and assignments this run makes
    last,             \* the last call: its inputs, the state before, its outcome
    lastCode,         \* {} or {c}: c is the code of the most recent exit-code call
    wraps,            \* the call-site annotations applied so far, oldest first
    alt,              \* SpecEquiv: heap and error of the allocating revision
    thr,              \* SpecRace: the goroutines inside new_newf
    hdr               \* SpecRace: the two words of the shared error's msg

vars == <<heap, cur, MainPrefix, DefaultExitCode, root, nops, limit, last, lastCode, wraps,
          alt, thr, hdr>>

\* ------------------------------------------------------------------ bounds

\* Spec: calls with every input, MaxOps of them.
MaxOps == 2
\* SpecChain: longer chains of calls, MaxChain of them, with fewer inputs each.
MaxChain == 4
\* SpecAbort: calls that may panic, MaxAbort of them.
MaxAbort == 3
\* SpecEquiv: the two earlier revisions of New and WithExitCode side by side.
MaxEquiv == 4

\* ----------------------------------------------------------------- strings

S_main == <<"m","a","i","n",".">>
S_doWork == <<"d","o","W","o","r","k">>
S_mainDoWork == S_main \o S_doWork
S_pkgReadFile == <<"p","k","g",".","r","e","a","d","F","i","l","e">>
S_mainMain == S_main \o <<"m","a","i","n">>
S_mainMainFunc1 == S_mainMain \o <<".","f","u","n","c","1">>
S_runtimeMain == <<"r","u","n","t","i","m","e",".","m","a","i","n">>
S_runtimeGoexit == <<"r","u","n","t","i","m","e",".","g","o","e","x","i","t">>
S_runtimeCallers == <<"r","u","n","t","i","m","e",".","C","a","l","l","e","r","s">>
S_weCaller == <<"w","e",".","c","a","l","l","e","r">>
S_weNewNewf == <<"w","e",".","n","e","w","_","n","e","w","f">>
S_weNew == <<"w","e",".","N","e","w">>
S_weNewf == <<"w","e",".","N","e","w","f">>
S_weNewEC == <<"w","e",".","N","e","w","E","C">>
S_weNewfEC == <<"w","e",".","N","e","w","f","E","C">>
S_diskFull == <<"d","i","s","k"," ","f","u","l","l">>
S_eof == <<"E","O","F">>
S_fooEqD == <<"f","o","o","=","%","d">>
S_bummer == <<"b","u","m","m","e","r">>
S_fooS == <<"f","o","o"," ","%","s">>
S_bar == <<"b","a","r">>
S_w5x == <<"w","=","%","5","x">>
S_x == <<"x">>

\* strings.HasPrefix(s, p)
HasPrefix(s, p) == Len(s) >= Len(p) /\ SubSeq(s, 1, Len(p)) = p

\* s[n:]
SliceFrom(s, n) == SubSeq(s, n + 1, Len(s))

\* strings.Repeat(s, n)
RECURSIVE Repeat(_, _)
Repeat(s, n) == IF n <= 0 THEN <<>> ELSE s \o Repeat(s, n - 1)

\* ------------------------------------------------------------- fmt values

\* An interface{} argument: an int or a string.
IntV(n) == [t |-> "int", n |-> n, s |-> <<>>]
StrV(s) == [t |-> "string", n |-> 0, s |-> s]

Digits == <<"0","1","2","3","4","5","6","7","8","9">>

\* strconv.Itoa, as fmt renders an int under %d and %v
RECURSIVE ItoaNat(_)
ItoaNat(n) == IF n < 10 THEN <<Digits[n + 1]>>
              ELSE ItoaNat(n \div 10) \o <<Digits[(n % 10) + 1]>>

Itoa(n) == IF n < 0 THEN <<"-">> \o ItoaNat(-n) ELSE ItoaNat(n)

S_int == <<"i","n","t">>
S_string == <<"s","t","r","i","n","g">>
S_MISSING == <<"(","M","I","S","S","I","N","G",")">>
S_EXTRA == <<"%","!","(","E","X","T","R","A"," ">>
S_NOVERB == <<"%","!","(","N","O","V","E","R","B",")">>
S_BADINDEX == <<"(","B","A","D","I","N","D","E","X",")">>
S_BADWIDTH == <<"%","!","(","B","A","D","W","I","D","T","H",")">>
S_BADPREC == <<"%","!","(","B","A","D","P","R","E","C",")">>

TypeName(v) == IF v.t = "int" THEN S_int ELSE S_string

\* the value under %v with no flags
PrintV(v) == IF v.t = "int" THEN Itoa(v.n) ELSE v.s

\* ------------------------------------------------------------- characters

\* A string is a sequence of runes, each written as a one-character string.
\* The runes U+0020..U+007E are written as themselves, as are tab, newline,
\* form feed and carriage return; any other rune is written as the one
\* element "\xhh", "\uhhhh" or "\Uhhhhhhhh"; so is the backquote, U+0060, which
\* a TLA+ string cannot hold.  Strings are valid UTF-8, and ints are within
\* 32 bits.
Ascii ==
    <<" ","!","\"","#","$","%","&","'","(",")","*","+",",","-",".","/",
      "0","1","2","3","4","5","6","7","8","9",":",";","<","=",">","?",
      "@","A","B","C","D","E","F","G","H","I","J","K","L","M","N","O",
      "P","Q","R","S","T","U","V","W","X","Y","Z","[","\\","]","^","_",
      "\\x60","a","b","c","d","e","f","g","h","i","j","k","l","m","n","o",
      "p","q","r","s","t","u","v","w","x","y","z","{","|","}","~">>

\* fmt's ldigits and udigits
ldigits == <<"0","1","2","3","4","5","6","7","8","9","a","b","c","d","e","f","x">>
udigits == <<"0","1","2","3","4","5","6","7","8","9","A","B","C","D","E","F","X">>

\* u in the given base, most significant digit first
RECURSIVE FmtDigits(_, _, _)
FmtDigits(u, base, digits) ==
    IF u < base THEN <<digits[u + 1]>>
    ELSE FmtDigits(u \div base, base, digits) \o <<digits[(u % base) + 1]>>

\* s with zeros in front up to n digits
ZeroFill(s, n) == Repeat(<<"0">>, n - Len(s)) \o s

\* a sequence of one-character strings as one string
RECURSIVE Joined(_)
Joined(s) == IF Len(s) = 0 THEN "" ELSE s[1] \o Joined(Tail(s))

\* strconv's escape of a rune that is not written as itself
EscapeDigits(r) ==
    IF r < 128 THEN <<"\\", "x">> \o ZeroFill(FmtDigits(r, 16, ldigits), 2)
    ELSE IF r < 65536 THEN <<"\\", "u">> \o ZeroFill(FmtDigits(r, 16, ldigits), 4)
    ELSE <<"\\", "U">> \o ZeroFill(FmtDigits(r, 16, ldigits), 8)

\* utf8.ValidRune
ValidRune(r) == (0 <= r /\ r < 55296) \/ (57343 < r /\ r <= 1114111)

\* the rune with code point r, utf8.RuneError when r is not a valid rune
Chr(r) ==
    IF ~ValidRune(r) THEN Joined(EscapeDigits(65533))
    ELSE IF 32 <= r /\ r <= 126 THEN Ascii[r - 31]
    ELSE IF r = 9 THEN "\t"
    ELSE IF r = 10 THEN "\n"
    ELSE IF r = 12 THEN "\f"
    ELSE IF r = 13 THEN "\r"
    ELSE Joined(EscapeDigits(r))

\* the rune an element of a string stands for
CodeOf(c) ==
    CHOOSE n \in 0..1114111 : ValidRune(n) /\ Chr(n) = c

\* utf8.EncodeRune: the bytes of a valid rune
Utf8(r) ==
    IF r < 128 THEN <<r>>
    ELSE IF r < 2048 THEN <<192 + (r \div 64), 128 + (r % 64)>>
    ELSE IF r < 65536
    THEN <<224 + (r \div 4096), 128 + ((r \div 64) % 64), 128 + (r % 64)>>
    ELSE <<240 + (r \div 262144), 128 + ((r \div 4096) % 64), 128 + ((r \div 64) % 64),
           128 + (r % 64)>>

\* the bytes of a string
RECURSIVE Bytes(_)
Bytes(s) == IF Len(s) = 0 THEN <<>> ELSE Utf8(CodeOf(s[1])) \o Bytes(Tail(s))

\* strconv's isPrint16 and isPrint32 tables with isNotPrint16 and isNotPrint32
\* taken out: first and last rune, pair after pair, of the ranges of runes
\* from U+0080 on that are letters, marks, numbers, punctuation or symbols in
\* Unicode 13.0.0, the tables of Go 1.16 to 1.20.
PrintRanges ==
    <<161,172,174,887,890,895,900,906,908,908,910,929,931,1327,1329,1366,1369,1418,1421,1423,
      1425,1479,1488,1514,1519,1524,1542,1563,1566,1756,1758,1805,1808,1866,1869,1969,1984,2042,
      2045,2093,2096,2110,2112,2139,2142,2142,2144,2154,2208,2228,2230,2247,2259,2273,2275,2435,
      2437,2444,2447,2448,2451,2472,2474,2480,2482,2482,2486,2489,2492,2500,2503,2504,2507,2510,
      2519,2519,2524,2525,2527,2531,2534,2558,2561,2563,2565,2570,2575,2576,2579,2600,2602,2608,
      2610,2611,2613,2614,2616,2617,2620,2620,2622,2626,2631,2632,2635,2637,2641,2641,2649,2652,
      2654,2654,2662,2678,2689,2691,2693,2701,2703,2705,2707,2728,2730,2736,2738,2739,2741,2745,
      2748,2757,2759,2761,2763,2765,2768,2768,2784,2787,2790,2801,2809,2815,2817,2819,2821,2828,
      2831,2832,2835,2856,2858,2864,2866,2867,2869,2873,2876,2884,2887,2888,2891,2893,2901,2903,
      2908,2909,2911,2915,2918,2935,2946,2947,2949,2954,2958,2960,2962,2965,2969,2970,2972,2972,
      2974,2975,2979,2980,2984,2986,2990,3001,3006,3010,3014,3016,3018,3021,3024,3024,3031,3031,
      3046,3066,3072,3084,3086,3088,3090,3112,3114,3129,3133,3140,3142,3144,3146,3149,3157,3158,
      3160,3162,3168,3171,3174,3183,3191,3212,3214,3216,3218,3240,3242,3251,3253,3257,3260,3268,
      3270,3272,3274,3277,3285,3286,3294,3294,3296,3299,3302,3311,3313,3314,3328,3340,3342,3344,
      3346,3396,3398,3400,3402,3407,3412,3427,3430,3455,3457,3459,3461,3478,3482,3505,3507,3515,
      3517,3517,3520,3526,3530,3530,3535,3540,3542,3542,3544,3551,3558,3567,3570,3572,3585,3642,
      3647,3675,3713,3714,3716,3716,3718,3722,3724,3747,3749,3749,3751,3773,3776,3780,3782,3782,
      3784,3789,3792,3801,3804,3807,3840,3911,3913,3948,3953,3991,3993,4028,4030,4044,4046,4058,
      4096,4293,4295,4295,4301,4301,4304,4680,4682,4685,4688,4694,4696,4696,4698,4701,4704,4744,
      4746,4749,4752,4784,4786,4789,4792,4798,4800,4800,4802,4805,4808,4822,4824,4880,4882,4885,
      4888,4954,4957,4988,4992,5017,5024,5109,5112,5117,5120,5759,5761,5788,5792,5880,5888,5900,
      5902,5908,5920,5942,5952,5971,5984,5996,5998,6000,6002,6003,6016,6109,6112,6121,6128,6137,
      6144,6157,6160,6169,6176,6264,6272,6314,6320,6389,6400,6430,6432,6443,6448,6459,6464,6464,
      6468,6509,6512,6516,6528,6571,6576,6601,6608,6618,6622,6683,6686,6750,6752,6780,6783,6793,
      6800,6809,6816,6829,6832,6848,6912,6987,6992,7036,7040,7155,7164,7223,7227,7241,7245,7304,
      7312,7354,7357,7367,7376,7418,7424,7673,7675,7957,7960,7965,7968,8005,8008,8013,8016,8023,
      8025,8025,8027,8027,8029,8029,8031,8061,8064,8116,8118,8132,8134,8147,8150,8155,8157,8175,
      8178,8180,8182,8190,8208,8231,8240,8286,8304,8305,8308,8334,8336,8348,8352,8383,8400,8432,
      8448,8587,8592,9254,9280,9290,9312,11123,11126,11157,11159,11310,11312,11358,11360,11507,
      11513,11557,11559,11559,11565,11565,11568,11623,11631,11632,11647,11670,11680,11686,11688,
      11694,11696,11702,11704,11710,11712,11718,11720,11726,11728,11734,11736,11742,11744,11858,
      11904,11929,11931,12019,12032,12245,12272,12283,12289,12351,12353,12438,12441,12543,12549,
      12591,12593,12686,12688,12771,12784,12830,12832,40956,40960,42124,42128,42182,42192,42539,
      42560,42743,42752,42943,42946,42954,42997,43052,43056,43065,43072,43127,43136,43205,43214,
      43225,43232,43347,43359,43388,43392,43469,43471,43481,43486,43518,43520,43574,43584,43597,
      43600,43609,43612,43714,43739,43766,43777,43782,43785,43790,43793,43798,43808,43814,43816,
      43822,43824,43883,43888,44013,44016,44025,44032,55203,55216,55238,55243,55291,63744,64109,
      64112,64217,64256,64262,64275,64279,64285,64310,64312,64316,64318,64318,64320,64321,64323,
      64324,64326,64449,64467,64831,64848,64911,64914,64967,65008,65021,65024,65049,65056,65106,
      65108,65126,65128,65131,65136,65140,65142,65276,65281,65470,65474,65479,65482,65487,65490,
      65495,65498,65500,65504,65510,65512,65518,65532,65533,65536,65547,65549,65574,65576,65594,
      65596,65597,65599,65613,65616,65629,65664,65786,65792,65794,65799,65843,65847,65934,65936,
      65948,65952,65952,66000,66045,66176,66204,66208,66256,66272,66299,66304,66339,66349,66378,
      66384,66426,66432,66461,66463,66499,66504,66517,66560,66717,66720,66729,66736,66771,66776,
      66811,66816,66855,66864,66915,66927,66927,67072,67382,67392,67413,67424,67431,67584,67589,
      67592,67592,67594,67637,67639,67640,67644,67644,67647,67669,67671,67742,67751,67759,67808,
      67826,67828,67829,67835,67867,67871,67897,67903,67903,67968,68023,68028,68047,68050,68099,
      68101,68102,68108,68115,68117,68119,68121,68149,68152,68154,68159,68168,68176,68184,68192,
      68255,68288,68326,68331,68342,68352,68405,68409,68437,68440,68466,68472,68497,68505,68508,
      68521,68527,68608,68680,68736,68786,68800,68850,68858,68903,68912,68921,69216,69246,69248,
      69289,69291,69293,69296,69297,69376,69415,69424,69465,69552,69579,69600,69622,69632,69709,
      69714,69743,69759,69820,69822,69825,69840,69864,69872,69881,69888,69940,69942,69959,69968,
      70006,70016,70111,70113,70132,70144,70161,70163,70206,70272,70278,70280,70280,70282,70285,
      70287,70301,70303,70313,70320,70378,70384,70393,70400,70403,70405,70412,70415,70416,70419,
      70440,70442,70448,70450,70451,70453,70457,70459,70468,70471,70472,70475,70477,70480,70480,
      70487,70487,70493,70499,70502,70508,70512,70516,70656,70747,70749,70753,70784,70855,70864,
      70873,71040,71093,71096,71133,71168,71236,71248,71257,71264,71276,71296,71352,71360,71369,
      71424,71450,71453,71467,71472,71487,71680,71739,71840,71922,71935,71942,71945,71945,71948,
      71955,71957,71958,71960,71989,71991,71992,71995,72006,72016,72025,72096,72103,72106,72151,
      72154,72164,72192,72263,72272,72354,72384,72440,72704,72712,72714,72758,72760,72773,72784,
      72812,72816,72847,72850,72871,72873,72886,72960,72966,72968,72969,72971,73014,73018,73018,
      73020,73021,73023,73031,73040,73049,73056,73061,73063,73064,73066,73102,73104,73105,73107,
      73112,73120,73129,73440,73464,73648,73648,73664,73713,73727,74649,74752,74862,74864,74868,
      74880,75075,77824,78894,82944,83526,92160,92728,92736,92766,92768,92777,92782,92783,92880,
      92909,92912,92917,92928,92997,93008,93017,93019,93025,93027,93047,93053,93071,93760,93850,
      93952,94026,94031,94087,94095,94111,94176,94180,94192,94193,94208,100343,100352,101589,
      101632,101640,110592,110878,110928,110930,110948,110951,110960,111355,113664,113770,
      113776,113788,113792,113800,113808,113817,113820,113823,118784,119029,119040,119078,
      119081,119154,119163,119272,119296,119365,119520,119539,119552,119638,119648,119672,
      119808,119892,119894,119964,119966,119967,119970,119970,119973,119974,119977,119980,
      119982,119993,119995,119995,119997,120003,120005,120069,120071,120074,120077,120084,
      120086,120092,120094,120121,120123,120126,120128,120132,120134,120134,120138,120144,
      120146,120485,120488,120779,120782,121483,121499,121503,121505,121519,122880,122886,
      122888,122904,122907,122913,122915,122916,122918,122922,123136,123180,123184,123197,
      123200,123209,123214,123215,123584,123641,123647,123647,124928,125124,125127,125142,
      125184,125259,125264,125273,125278,125279,126065,126132,126209,126269,126464,126467,
      126469,126495,126497,126498,126500,126500,126503,126503,126505,126514,126516,126519,
      126521,126521,126523,126523,126530,126530,126535,126535,126537,126537,126539,126539,
      126541,126543,126545,126546,126548,126548,126551,126551,126553,126553,126555,126555,
      126557,126557,126559,126559,126561,126562,126564,126564,126567,126570,126572,126578,
      126580,126583,126585,126588,126590,126590,126592,126601,126603,126619,126625,126627,
      126629,126633,126635,126651,126704,126705,126976,127019,127024,127123,127136,127150,
      127153,127167,127169,127183,127185,127221,127232,127405,127462,127490,127504,127547,
      127552,127560,127568,127569,127584,127589,127744,128727,128736,128748,128752,128764,
      128768,128883,128896,128984,128992,129003,129024,129035,129040,129095,129104,129113,
      129120,129159,129168,129197,129200,129201,129280,129400,129402,129483,129485,129619,
      129632,129645,129648,129652,129656,129658,129664,129670,129680,129704,129712,129718,
      129728,129730,129744,129750,129792,129938,129940,129994,130032,130041,131072,173789,
      173824,177972,177984,178205,178208,183969,183984,191456,194560,195101,196608,201546,
      917760,917999>>

\* strconv's search of a table t of ranges for the rune r
InRanges(r, t) == \E k \in 1..(Len(t) \div 2) : t[2 * k - 1] <= r /\ r <= t[2 * k]

\* strconv.IsPrint
IsPrint(r) == IF r < 128 THEN 32 <= r /\ r <= 126 ELSE InRanges(r, PrintRanges)

\* strconv's appendEscapedRune for the rune r inside the given quote
EscapedRune(r, quote, ASCIIonly) ==
    IF r = CodeOf(quote) \/ r = 92 THEN <<"\\", Chr(r)>>
    ELSE IF (ASCIIonly => r < 128) /\ IsPrint(r) THEN <<Chr(r)>>
    ELSE IF r = 7 THEN <<"\\", "a">>
    ELSE IF r = 8 THEN <<"\\", "b">>
    ELSE IF r = 12 THEN <<"\\", "f">>
    ELSE IF r = 10 THEN <<"\\", "n">>
    ELSE IF r = 13 THEN <<"\\", "r">>
    ELSE IF r = 9 THEN <<"\\", "t">>
    ELSE IF r = 11 THEN <<"\\", "v">>
    ELSE IF ~ValidRune(r) THEN EscapeDigits(65533)
    ELSE EscapeDigits(r)

\* strconv.AppendQuote and AppendQuoteToASCII
RECURSIVE QuoteBody(_, _)
QuoteBody(s, ASCIIonly) ==
    IF Len(s) = 0 THEN <<>>
    ELSE EscapedRune(CodeOf(s[1]), "\"", ASCIIonly) \o QuoteBody(Tail(s), ASCIIonly)

Quote(s, ASCIIonly) == <<"\"">> \o QuoteBody(s, ASCIIonly) \o <<"\"">>

\* strconv.AppendQuoteRune and AppendQuoteRuneToASCII
QuoteRune(r, ASCIIonly) ==
    <<"'">> \o EscapedRune(IF ValidRune(r) THEN r ELSE 65533, "'", ASCIIonly) \o <<"'">>

\* strconv.CanBackquote
CanBackquote(s) ==
    \A i \in 1..Len(s) :
        LET r == CodeOf(s[i])
        IN  ~((r < 32 /\ r # 9) \/ r = 96 \/ r = 127 \/ r = 65279)

\* ------------------------------------------------------------- fmt flags

\* fmt's fmtFlags with wid and prec, after clearflags
clearflags ==
    [sharp |-> FALSE, zero |-> FALSE, plus |-> FALSE, minus |-> FALSE, space |-> FALSE,
     sharpV |-> FALSE, plusV |-> FALSE,
     wid |-> 0, widPresent |-> FALSE, prec |-> 0, precPresent |-> FALSE]

\* fmt.writePadding
writePadding(n, fl) ==
    IF n <= 0 THEN <<>>
    ELSE Repeat(<<IF fl.zero /\ ~fl.minus THEN "0" ELSE " ">>, n)

\* fmt.pad and fmt.padString
pad(b, fl) ==
    IF ~fl.widPresent \/ fl.wid = 0 THEN b
    ELSE IF ~fl.minus THEN writePadding(fl.wid - Len(b), fl) \o b
    ELSE b \o writePadding(fl.wid - Len(b), fl)

\* fmt.truncateString
truncateString(s, fl) ==
    IF fl.precPresent /\ fl.prec < Len(s) THEN SubSeq(s, 1, fl.prec) ELSE s

\* fmt.fmtS
fmtS(s, fl) == pad(truncateString(s, fl), fl)

\* fmt.fmtQ
fmtQ(s, fl) ==
    LET t == truncateString(s, fl)
    IN  IF fl.sharp /\ CanBackquote(t) THEN pad(<<Chr(96)>> \o t \o <<Chr(96)>>, fl)
        ELSE pad(Quote(t, fl.plus), fl)

\* fmt.fmtSbx's loop over the bytes b
RECURSIVE SbxBytes(_, _, _, _, _)
SbxBytes(b, i, length, digits, fl) ==
    IF i >= length THEN <<>>
    ELSE (IF fl.space /\ i > 0
          THEN <<" ">> \o (IF fl.sharp THEN <<"0", digits[17]>> ELSE <<>>)
          ELSE <<>>)
         \o <<digits[(b[i + 1] \div 16) + 1], digits[(b[i + 1] % 16) + 1]>>
         \o SbxBytes(b, i + 1, length, digits, fl)

\* fmt.fmtSbx: the first length bytes of b in hexadecimal, width characters
SbxPadded(b, length, width, digits, fl) ==
    IF width <= 0
    THEN (IF fl.widPresent THEN writePadding(fl.wid, fl) ELSE <<>>)
    ELSE (IF fl.widPresent /\ fl.wid > width /\ ~fl.minus
          THEN writePadding(fl.wid - width, fl) ELSE <<>>)
         \o (IF fl.sharp THEN <<"0", digits[17]>> ELSE <<>>)
         \o SbxBytes(b, 0, length, digits, fl)
         \o (IF fl.widPresent /\ fl.wid > width /\ fl.minus
             THEN writePadding(fl.wid - width, fl) ELSE <<>>)

\* fmt.fmtSbx's width of the encoding of length bytes
SbxWidth(length, fl) ==
    IF length <= 0 THEN 0
    ELSE IF fl.space THEN (IF fl.sharp THEN 4 * length ELSE 2 * length) + length - 1
    ELSE IF fl.sharp THEN 2 * length + 2
    ELSE 2 * length

\* fmt.fmtSbx's number of bytes: no more than the precision
SbxLength(b, fl) == IF fl.precPresent /\ fl.prec < Len(b) THEN fl.prec ELSE Len(b)

\* fmt.fmtSbx on the bytes b
fmtSbx(b, length, digits, fl) == SbxPadded(b, length, SbxWidth(length, fl), digits, fl)

\* fmt.fmtSx
fmtSx(s, digits, fl) == fmtSbx(Bytes(s), SbxLength(Bytes(s), fl), digits, fl)

\* fmt.fmtInteger's prefixes in front of the digits num: 0b, 0, 0x or 0X
\* under the sharp flag, 0o for the verb O, then the sign
IntPrefix(negative, base, verb, digits, fl, num) ==
    (IF negative THEN <<"-">> ELSE IF fl.plus THEN <<"+">> ELSE IF fl.space THEN <<" ">>
     ELSE <<>>)
    \o (IF verb = "O" THEN <<"0", "o">> ELSE <<>>)
    \o (IF ~fl.sharp THEN <<>>
        ELSE IF base = 2 THEN <<"0", "b">>
        ELSE IF base = 8 /\ num[1] # "0" THEN <<"0">>
        ELSE IF base = 16 THEN <<"0", digits[17]>>
        ELSE <<>>)
    \o num

\* fmt.fmtInteger's number of digits: the precision, or the width under the
\* zero flag
IntPrec(negative, fl) ==
    IF fl.precPresent THEN fl.prec
    ELSE IF fl.zero /\ ~fl.minus /\ fl.widPresent
    THEN (IF negative \/ fl.plus \/ fl.space THEN fl.wid - 1 ELSE fl.wid)
    ELSE 0

\* fmt.fmtInteger for a signed int
fmtInteger(n, base, verb, digits, fl) ==
    IF fl.precPresent /\ fl.prec = 0 /\ n = 0
    THEN writePadding(fl.wid, [fl EXCEPT !.zero = FALSE])
    ELSE pad(IntPrefix(n < 0, base, verb, digits, fl,
                       ZeroFill(FmtDigits(IF n < 0 THEN -n ELSE n, base, digits),
                                IntPrec(n < 0, fl))),
             [fl EXCEPT !.zero = FALSE])

\* uint64(n) > utf8.MaxRune
AboveMaxRune(n) == n < 0 \/ n > 1114111

\* fmt.fmtC
fmtC(n, fl) == pad(<<Chr(IF AboveMaxRune(n) THEN 65533 ELSE n)>>, fl)

\* fmt.fmtQc
fmtQc(n, fl) == pad(QuoteRune(IF AboveMaxRune(n) THEN 65533 ELSE n, fl.plus), fl)

\* uint64(n) in hexadecimal for n < 0: the sixteen digits of 2^64 + n
RECURSIVE Complement(_)
Complement(ds) ==
    IF Len(ds) = 0 THEN <<>>
    ELSE <<udigits[16 - (CHOOSE d \in 0..15 : udigits[d + 1] = ds[1])]>> \o Complement(Tail(ds))

Hex64(n) ==
    IF n >= 0 THEN FmtDigits(n, 16, udigits)
    ELSE Complement(ZeroFill(FmtDigits(-n - 1, 16, udigits), 16))

\* fmt.fmtUnicode
fmtUnicode(n, fl) ==
    LET prec == IF fl.precPresent /\ fl.prec > 4 THEN fl.prec ELSE 4
        quoted == IF fl.sharp /\ ~AboveMaxRune(n) /\ IsPrint(n)
                  THEN <<" ", "'", Chr(n), "'">> ELSE <<>>
    IN  pad(<<"U", "+">> \o ZeroFill(Hex64(n), prec) \o quoted, [fl EXCEPT !.zero = FALSE])

RECURSIVE PrintArg(_, _, _)

\* fmt's badVerb: %!verb(type=value), the value printed by printArg under %v
\* with the flags in force
BadVerb(verb, v, fl) ==
    <<"%", "!", verb, "(">> \o TypeName(v) \o <<"=">> \o PrintArg("v", v, fl) \o <<")">>

\* pp.fmtInteger's verbs that print the int in a base
IntBase(verb) ==
    IF verb \in {"v", "d"} THEN 10 ELSE IF verb = "b" THEN 2
    ELSE IF verb \in {"o", "O"} THEN 8 ELSE 16

\* the verbs pp.fmtInteger and pp.fmtString have a case for
GoodVerb(verb, v) ==
    IF v.t = "int" THEN verb \in {"v", "d", "b", "o", "O", "x", "X", "c", "q", "U"}
    ELSE verb \in {"v", "s", "x", "X", "q"}

\* fmt's printArg for an int or a string, with pp.fmtInteger and pp.fmtString
PrintArg(verb, v, fl) ==
    IF verb = "T" THEN fmtS(TypeName(v), fl)
    ELSE IF ~GoodVerb(verb, v) THEN BadVerb(verb, v, fl)
    ELSE IF v.t = "int"
    THEN (IF verb = "c" THEN fmtC(v.n, fl)
          ELSE IF verb = "q" THEN fmtQc(v.n, fl)
          ELSE IF verb = "U" THEN fmtUnicode(v.n, fl)
          ELSE fmtInteger(v.n, IntBase(verb), verb, IF verb = "X" THEN udigits ELSE ldigits, fl))
    ELSE (IF verb = "s" \/ (verb = "v" /\ ~fl.sharpV) THEN fmtS(v.s, fl)
          ELSE IF verb = "q" \/ (verb = "v" /\ fl.sharpV) THEN fmtQ(v.s, fl)
          ELSE fmtSx(v.s, IF verb = "X" THEN udigits ELSE ldigits, fl))

\* ------------------------------------------------------------ fmt.Sprintf

\* format[i], i counted from 0 as fmt counts it
ByteAt(s, i) == s[i + 1]

IsDigit(c) == \E d \in 1..10 : Digits[d] = c
DigitVal(c) == (CHOOSE d \in 1..10 : Digits[d] = c) - 1
IsLower(c) == \E n \in 66..91 : Ascii[n] = c

\* fmt.tooLarge
tooLarge(x) == x > 1000000 \/ x < -1000000

\* fmt.parsenum
RECURSIVE ParsenumLoop(_, _, _, _, _)
ParsenumLoop(s, newi, end, num, isnum) ==
    IF newi < end /\ IsDigit(ByteAt(s, newi))
    THEN IF tooLarge(num) THEN [num |-> 0, isnum |-> FALSE, newi |-> end]
         ELSE ParsenumLoop(s, newi + 1, end, num * 10 + DigitVal(ByteAt(s, newi)), TRUE)
    ELSE [num |-> num, isnum |-> isnum, newi |-> newi]

parsenum(s, start, end) ==
    IF start >= end THEN [num |-> 0, isnum |-> FALSE, newi |-> end]
    ELSE ParsenumLoop(s, start, end, 0, FALSE)

\* fmt.intFromArg
intFromArg(a, argNum) ==
    IF argNum < Len(a)
    THEN LET v == a[argNum + 1]
             isInt == v.t = "int" /\ ~tooLarge(v.n)
         IN  [num |-> IF isInt THEN v.n ELSE 0, isInt |-> isInt, newArgNum |-> argNum + 1]
    ELSE [num |-> 0, isInt |-> FALSE, newArgNum |-> argNum]

\* fmt.parseArgNumber, on format[i:]
parseArgNumber(format) ==
    LET closes == {j \in 1..(Len(format) - 1) : ByteAt(format, j) = "]"}
    IN  IF Len(format) < 3 \/ closes = {} THEN [index |-> 0, wid |-> 1, ok |-> FALSE]
        ELSE LET j == CHOOSE c \in closes : \A d \in closes : c <= d
                 n == parsenum(format, 1, j)
             IN  IF ~n.isnum \/ n.newi # j THEN [index |-> 0, wid |-> j + 1, ok |-> FALSE]
                 ELSE [index |-> n.num - 1, wid |-> j + 1, ok |-> TRUE]

\* pp.argNumber; seen is what it adds to p.reordered, bad that it clears
\* p.goodArgNum
argNumber(argNum, format, i, numArgs) ==
    IF Len(format) <= i \/ ByteAt(format, i) # "["
    THEN [argNum |-> argNum, i |-> i, found |-> FALSE, seen |-> FALSE, bad |-> FALSE]
    ELSE LET r == parseArgNumber(SubSeq(format, i + 1, Len(format)))
         IN  IF r.ok /\ 0 <= r.index /\ r.index < numArgs
             THEN [argNum |-> r.index, i |-> i + r.wid, found |-> TRUE, seen |-> TRUE,
                   bad |-> FALSE]
             ELSE [argNum |-> argNum, i |-> i + r.wid, found |-> r.ok, seen |-> TRUE,
                   bad |-> TRUE]

\* doPrintf's flags for the verbs v and w: %#v and %+v are formats of their own
VerbFlags(verb, fl) ==
    IF verb \in {"v", "w"}
    THEN [fl EXCEPT !.sharpV = fl.sharp, !.sharp = FALSE, !.plusV = fl.plus, !.plus = FALSE]
    ELSE fl

\* doPrintf's flag loop from format[i]; fast is its path for a lower-case verb
\* right after the flags
RECURSIVE ScanFlags(_, _, _, _, _)
ScanFlags(format, a, i, argNum, fl) ==
    IF i >= Len(format) THEN [i |-> i, fl |-> fl, fast |-> FALSE]
    ELSE LET c == ByteAt(format, i)
         IN  IF c = "#" THEN ScanFlags(format, a, i + 1, argNum, [fl EXCEPT !.sharp = TRUE])
             ELSE IF c = "0" THEN ScanFlags(format, a, i + 1, argNum, [fl EXCEPT !.zero = TRUE])
             ELSE IF c = "+" THEN ScanFlags(format, a, i + 1, argNum, [fl EXCEPT !.plus = TRUE])
             ELSE IF c = "-" THEN ScanFlags(format, a, i + 1, argNum, [fl EXCEPT !.minus = TRUE])
             ELSE IF c = " " THEN ScanFlags(format, a, i + 1, argNum, [fl EXCEPT !.space = TRUE])
             ELSE [i |-> i, fl |-> fl, fast |-> IsLower(c) /\ argNum < Len(a)]

\* doPrintf's verb: n3 is the last argNumber, p the state after the precision
EmitVerb(format, a, p, n3) ==
    IF n3.i >= Len(format)
    THEN [out |-> p.out \o S_NOVERB, i |-> n3.i, argNum |-> n3.argNum,
          seen |-> p.seen \/ n3.seen, stop |-> TRUE]
    ELSE [out |-> p.out \o
                  (IF ByteAt(format, n3.i) = "%" THEN <<"%">>
                   ELSE IF ~p.good \/ n3.bad
                   THEN <<"%", "!", ByteAt(format, n3.i)>> \o S_BADINDEX
                   ELSE IF n3.argNum >= Len(a)
                   THEN <<"%", "!", ByteAt(format, n3.i)>> \o S_MISSING
                   ELSE PrintArg(ByteAt(format, n3.i), a[n3.argNum + 1],
                                 VerbFlags(ByteAt(format, n3.i), p.fl))),
          i |-> n3.i + 1,
          argNum |-> IF ByteAt(format, n3.i) # "%" /\ p.good /\ ~n3.bad /\ n3.argNum < Len(a)
                     THEN n3.argNum + 1 ELSE n3.argNum,
          seen |-> p.seen \/ n3.seen, stop |-> FALSE]

\* doPrintf's argument index right before the verb, unless one came just
\* before, and the verb
VerbStep(format, a, p) ==
    EmitVerb(format, a, p,
             IF ~p.afterIndex THEN argNumber(p.argNum, format, p.i, Len(a))
             ELSE [argNum |-> p.argNum, i |-> p.i, found |-> TRUE, seen |-> FALSE,
                   bad |-> FALSE])

\* doPrintf's precision from an argument: pa is intFromArg's result
StarPrec(w, n2, pa) ==
    [i |-> n2.i + 1, argNum |-> pa.newArgNum,
     out |-> w.out \o (IF pa.isInt /\ pa.num >= 0 THEN <<>> ELSE S_BADPREC),
     fl |-> [w.fl EXCEPT !.prec = IF pa.num < 0 THEN 0 ELSE pa.num,
                         !.precPresent = pa.isInt /\ pa.num >= 0],
     afterIndex |-> FALSE,
     good |-> w.good /\ ~w.afterIndex /\ ~n2.bad, seen |-> w.seen \/ n2.seen]

\* doPrintf's precision from the format: pn is parsenum's result
NumPrec(w, n2, pn) ==
    [i |-> pn.newi, argNum |-> n2.argNum, out |-> w.out,
     fl |-> [w.fl EXCEPT !.prec = IF pn.isnum THEN pn.num ELSE 0, !.precPresent = TRUE],
     afterIndex |-> n2.found,
     good |-> w.good /\ ~w.afterIndex /\ ~n2.bad, seen |-> w.seen \/ n2.seen]

\* doPrintf after the "." of a precision: n2 is argNumber's result
PrecArg(format, a, w, n2) ==
    IF n2.i < Len(format) /\ ByteAt(format, n2.i) = "*"
    THEN StarPrec(w, n2, intFromArg(a, n2.argNum))
    ELSE NumPrec(w, n2, parsenum(format, n2.i, Len(format)))

\* doPrintf's precision: w is the state after the width
PrecStep(format, a, w) ==
    IF w.i + 1 <= Len(format) /\ ByteAt(format, w.i) = "."
    THEN PrecArg(format, a, w, argNumber(w.argNum, format, w.i + 1, Len(a)))
    ELSE w

\* doPrintf's width from an argument: wa is intFromArg's result
StarWidth(fl0, n1, wa) ==
    [i |-> n1.i + 1, argNum |-> wa.newArgNum,
     out |-> IF wa.isInt THEN <<>> ELSE S_BADWIDTH,
     fl |-> [fl0 EXCEPT !.wid = IF wa.num < 0 THEN -wa.num ELSE wa.num,
                        !.widPresent = wa.isInt,
                        !.minus = @ \/ wa.num < 0,
                        !.zero = @ /\ wa.num >= 0],
     afterIndex |-> FALSE, good |-> ~n1.bad, seen |-> n1.seen]

\* doPrintf's width from the format: wp is parsenum's result
NumWidth(fl0, n1, wp) ==
    [i |-> wp.newi, argNum |-> n1.argNum, out |-> <<>>,
     fl |-> [fl0 EXCEPT !.wid = wp.num, !.widPresent = wp.isnum],
     afterIndex |-> n1.found, good |-> ~n1.bad /\ ~(n1.found /\ wp.isnum),
     seen |-> n1.seen]

\* doPrintf's width: n1 is the result of the first argNumber
WidthStep(format, a, fl0, n1) ==
    IF n1.i < Len(format) /\ ByteAt(format, n1.i) = "*"
    THEN StarWidth(fl0, n1, intFromArg(a, n1.argNum))
    ELSE NumWidth(fl0, n1, parsenum(format, n1.i, Len(format)))

\* doPrintf from the argument index to the verb: the state after width and
\* precision
ProcessVerb(format, a, i0, argNum0, fl0) ==
    PrecStep(format, a, WidthStep(format, a, fl0, argNumber(argNum0, format, i0, Len(a))))

\* doPrintf's fast path: a lower-case verb right after the flags, no width,
\* precision or argument index
FastVerb(f0, argNum) ==
    [i |-> f0.i, argNum |-> argNum, out |-> <<>>, fl |-> f0.fl, afterIndex |-> TRUE,
     good |-> TRUE, seen |-> FALSE]

\* the arguments the format did not use: "type=value, type=value"
RECURSIVE ExtraArgs(_, _)
ExtraArgs(args, k) ==
    IF k > Len(args) THEN <<>>
    ELSE TypeName(args[k]) \o <<"=">> \o PrintV(args[k])
         \o (IF k < Len(args) THEN <<",", " ">> ELSE <<>>)
         \o ExtraArgs(args, k + 1)

\* doPrintf's check for extra arguments, skipped after an argument index
ExtraCheck(a, argNum, reordered) ==
    IF ~reordered /\ argNum < Len(a)
    THEN S_EXTRA \o ExtraArgs(a, argNum + 1) \o <<")">>
    ELSE <<>>

RECURSIVE DoPrintf(_, _, _, _, _)

\* doPrintf after a verb: s is VerbStep's result
AfterVerb(format, a, reordered, s) ==
    s.out \o (IF s.stop THEN ExtraCheck(a, s.argNum, reordered \/ s.seen)
              ELSE DoPrintf(format, a, s.i, s.argNum, reordered \/ s.seen))

\* doPrintf after the flags: f0 is ScanFlags' result
AfterFlags(format, a, argNum, reordered, f0) ==
    AfterVerb(format, a, reordered,
              VerbStep(format, a,
                       IF f0.fast THEN FastVerb(f0, argNum)
                       ELSE ProcessVerb(format, a, f0.i, argNum, f0.fl)))

\* fmt's doPrintf loop: i is the position in the format, argNum the next
\* argument, both counted from 0
DoPrintf(format, a, i, argNum, reordered) ==
    IF i >= Len(format) THEN ExtraCheck(a, argNum, reordered)
    ELSE IF ByteAt(format, i) # "%"
    THEN <<ByteAt(format, i)>> \o DoPrintf(format, a, i + 1, argNum, reordered)
    ELSE AfterFlags(format, a, argNum, reordered,
                    ScanFlags(format, a, i + 1, argNum, clearflags))

Sprintf(format, args) == DoPrintf(format, args, 0, 0, FALSE)

\* ------------------------------------------------------------ error values

\* An error interface value: nil, a plain error, or a *wrapped_error.
Nil == [k |-> "nil", id |-> 0]
Plain(i) == [k |-> "plain", id |-> i]
Ptr(i) == [k |-> "we", id |-> i]

\* The plain errors of the embedding application and their Error() text.
PlainIds == {1, 2}
PlainText(i) == IF i = 1 THEN S_diskFull ELSE S_eof

\* e.(*wrapped_error)
IsWrapped(e) == e.k = "we"

\* type wrapped_error struct { msg; cause; code }
WrappedError(msg, cause, code) == [msg |-> msg, cause |-> cause, code |-> code]

\* e.Error() for a non-nil e: the wrapped_error's msg, or the plain error's text
ErrorText(h, e) == IF IsWrapped(e) THEN h[e.id].msg ELSE PlainText(e.id)

\* func Cause(e error) error
Cause(h, e) == IF IsWrapped(e) THEN h[e.id].cause ELSE e

\* ExitCode with the default written as the literal 1
ExitCode_Literal(h, dec, e) == IF IsWrapped(e) THEN h[e.id].code ELSE 1

\* func ExitCode(e error) int
ExitCode(h, dec, e) == IF IsWrapped(e) THEN h[e.id].code ELSE dec

\* --------------------------------------------------------- caller resolver

\* runtime.Callers(skip, pc) called with the stack stk (innermost frame first)
\* below it: frame 0 is Callers itself; at most size frames are returned.
RuntimeCallers(skip, size, stk) ==
    LET fr == <<S_runtimeCallers>> \o stk
        hi == IF skip + size <= Len(fr) THEN skip + size ELSE Len(fr)
    IN  SubSeq(fr, skip + 1, hi)

\* caller without the n != 1 check: the zero Frame's Function is ""
caller_NoCheck(skip, stk) ==
    LET pc == RuntimeCallers(skip, 1, <<S_weCaller>> \o stk)
    IN  [panic |-> FALSE, name |-> IF Len(pc) = 1 THEN pc[1] ELSE <<>>]

\* func caller(skip int) string, called with the stack stk below it
caller(skip, stk) ==
    LET pc == RuntimeCallers(skip, 1, <<S_weCaller>> \o stk)
    IN  IF Len(pc) # 1
        THEN [panic |-> TRUE, name |-> <<>>]
        ELSE [panic |-> FALSE, name |-> pc[1]]

\* ------------------------------------------------------------- operations

\* What a call returns: it returned res, or it panicked; heap is the heap after.
Returned(h, res) == [out |-> "ok", res |-> res, heap |-> h, why |-> "none"]
Panicked(h, why) == [out |-> "panic", res |-> Nil, heap |-> h, why |-> why]

\* the skip count of a New that calls caller itself, without new_newf
CallerSkip_Direct == 3

\* the skip count of new_newf's call of caller
CallerSkip == 4

\* TrimName that does not read the flag
TrimName_NoFlag(mp, funcname) ==
    IF HasPrefix(funcname, S_main) THEN SliceFrom(funcname, 5) ELSE funcname

\* new_newf: the function name after the MainPrefix trim
TrimName(mp, funcname) ==
    IF ~mp /\ HasPrefix(funcname, S_main) THEN SliceFrom(funcname, 5) ELSE funcname

\* ArgsStr that keeps the last "%v," whole
ArgsStr_TrailingComma(f, args) ==
    IF Len(args) = 0 THEN <<>>
    ELSE IF f THEN Sprintf(args[1].s, SubSeq(args, 2, Len(args)))
    ELSE Sprintf(Repeat(<<"%", "v", ",">>, Len(args)), args)

\* new_newf: args_str for a non-empty args whose args[0] is a string when f
ArgsStr(f, args) ==
    IF Len(args) = 0 THEN <<>>
    ELSE IF f THEN Sprintf(args[1].s, SubSeq(args, 2, Len(args)))
    ELSE LET fmt_str == Repeat(<<"%", "v", ",">>, Len(args))
         IN  Sprintf(SubSeq(fmt_str, 1, Len(fmt_str) - 1), args)

\* fmt.Sprintf("%s(%s): %s", funcname, args_str, e.Error())
WrapMsg(funcname, args_str, text) ==
    Sprintf(<<"%","s","(","%","s",")",":"," ","%","s">>,
            <<StrV(funcname), StrV(args_str), StrV(text)>>)

\* SetMsg that wraps the wrapped_error again: its cause is e itself
SetMsg_Rewrap(h, dec, e, msg) ==
    Returned(Append(h, WrappedError(msg, e, IF IsWrapped(e) THEN h[e.id].code ELSE dec)),
             Ptr(Len(h) + 1))

\* SetMsg that always allocates, copying the cause and the code of a wrapped_error
SetMsg_Realloc(h, dec, e, msg) ==
    IF IsWrapped(e)
    THEN Returned(Append(h, WrappedError(msg, h[e.id].cause, h[e.id].code)), Ptr(Len(h) + 1))
    ELSE Returned(Append(h, WrappedError(msg, e, dec)), Ptr(Len(h) + 1))

\* SetMsg that assigns the default code in both branches
SetMsg_ResetCode(h, dec, e, msg) ==
    IF IsWrapped(e)
    THEN Returned([h EXCEPT ![e.id].msg = msg, ![e.id].code = dec], e)
    ELSE Returned(Append(h, WrappedError(msg, e, dec)), Ptr(Len(h) + 1))

\* the tail of new_newf and of Prependf: mutate a wrapped_error, or allocate
SetMsg(h, dec, e, msg) ==
    IF IsWrapped(e)
    THEN Returned([h EXCEPT ![e.id].msg = msg], e)
    ELSE Returned(Append(h, WrappedError(msg, e, dec)), Ptr(Len(h) + 1))

\* new_newf that renders a format that is no string with %v instead of failing
NewNewfBody_Masked(h, mp, dec, f, e, args, stk, text) ==
    LET c == caller(CallerSkip, <<S_weNewNewf>> \o stk)
        isFmt == f /\ (Len(args) = 0 \/ args[1].t = "string")
    IN  IF c.panic THEN Panicked(h, "caller")
        ELSE SetMsg(h, dec, e, WrapMsg(TrimName(mp, c.name), ArgsStr(isFmt, args), text))

\* new_newf that writes the name into e.msg before it looks at the format
NewNewfBody_WriteFirst(h, mp, dec, f, e, args, stk, text) ==
    LET c == caller(CallerSkip, <<S_weNewNewf>> \o stk)
    IN  IF c.panic THEN Panicked(h, "caller")
        ELSE IF Len(args) > 0 /\ f /\ args[1].t # "string"
        THEN Panicked(SetMsg(h, dec, e, TrimName(mp, c.name)).heap, "type assertion")
        ELSE SetMsg(h, dec, e, WrapMsg(TrimName(mp, c.name), ArgsStr(f, args), text))

\* new_newf after its nil check
\* stk: the stack at the call, the public entry point's frame first
NewNewfBody(h, mp, dec, f, e, args, stk, text) ==
    LET c == caller(CallerSkip, <<S_weNewNewf>> \o stk)
    IN  IF c.panic THEN Panicked(h, "caller")
        ELSE IF Len(args) > 0 /\ f /\ args[1].t # "string"
        THEN Panicked(h, "type assertion")
        ELSE SetMsg(h, dec, e, WrapMsg(TrimName(mp, c.name), ArgsStr(f, args), text))

\* new_newf that resolves the caller before it tests e for nil
new_newf_CallerFirst(h, mp, dec, f, e, args, stk) ==
    IF caller(CallerSkip, <<S_weNewNewf>> \o stk).panic THEN Panicked(h, "caller")
    ELSE IF e = Nil THEN Returned(h, Nil)
    ELSE NewNewfBody(h, mp, dec, f, e, args, stk, ErrorText(h, e))

\* new_newf that prepends to the cause's text, not to e.Error()
new_newf_CauseText(h, mp, dec, f, e, args, stk) ==
    IF e = Nil THEN Returned(h, Nil)
    ELSE NewNewfBody(h, mp, dec, f, e, args, stk, ErrorText(h, Cause(h, e)))

\* func new_newf(f bool, e error, args ...interface{}) error
new_newf(h, mp, dec, f, e, args, stk) ==
    IF e = Nil THEN Returned(h, Nil)
    ELSE NewNewfBody(h, mp, dec, f, e, args, stk, ErrorText(h, e))

\* WithExitCode that sets the code of a new wrapped_error only
WithExitCode_NewOnly(h, code, e) ==
    IF e = Nil THEN Returned(h, Nil)
    ELSE IF IsWrapped(e) THEN Returned(h, e)
    ELSE Returned(Append(h, WrappedError(ErrorText(h, e), e, code)), Ptr(Len(h) + 1))

\* WithExitCode that leaves the msg of a new wrapped_error empty
WithExitCode_NoMsg(h, code, e) ==
    IF e = Nil THEN Returned(h, Nil)
    ELSE IF IsWrapped(e)
    THEN Returned([h EXCEPT ![e.id].code = code], e)
    ELSE Returned(Append(h, WrappedError(<<>>, e, code)), Ptr(Len(h) + 1))

\* func WithExitCode(code int, e error) error
WithExitCode(h, code, e) ==
    IF e = Nil THEN Returned(h, Nil)
    ELSE IF IsWrapped(e)
    THEN Returned([h EXCEPT ![e.id].code = code], e)
    ELSE Returned(Append(h, WrappedError(ErrorText(h, e), e, code)), Ptr(Len(h) + 1))

\* func New(e error, args ...interface{}) error, called with the stack stk
New(h, mp, dec, e, args, stk) ==
    new_newf(h, mp, dec, FALSE, e, args, <<S_weNew>> \o stk)

\* func Newf(e error, format_and_args ...interface{}) error
Newf(h, mp, dec, e, args, stk) ==
    new_newf(h, mp, dec, TRUE, e, args, <<S_weNewf>> \o stk)

\* NewEC written as New + WithExitCode, through the public New
NewEC_ViaNew(h, mp, dec, code, e, args, stk) ==
    LET r == New(h, mp, dec, e, args, <<S_weNewEC>> \o stk)
    IN  IF r.out = "panic" THEN r ELSE WithExitCode(r.heap, code, r.res)

\* func NewEC(code int, e error, args ...interface{}) error
NewEC(h, mp, dec, code, e, args, stk) ==
    LET r == new_newf(h, mp, dec, FALSE, e, args, <<S_weNewEC>> \o stk)
    IN  IF r.out = "panic" THEN r ELSE WithExitCode(r.heap, code, r.res)

\* func NewfEC(code int, e error, format_and_args ...interface{}) error
NewfEC(h, mp, dec, code, e, args, stk) ==
    LET r == new_newf(h, mp, dec, TRUE, e, args, <<S_weNewfEC>> \o stk)
    IN  IF r.out = "panic" THEN r ELSE WithExitCode(r.heap, code, r.res)

\* fmt.Sprintf("%s: %s", prefix, e.Error())
PrependMsg(prefix, text) ==
    Sprintf(<<"%","s",":"," ","%","s">>, <<StrV(prefix), StrV(text)>>)

\* Prependf without the type switch: it always allocates
Prependf_Alloc(h, dec, e, format, args) ==
    IF e = Nil THEN Panicked(h, "nil dereference")
    ELSE Returned(Append(h, WrappedError(PrependMsg(Sprintf(format, args), ErrorText(h, e)),
                                         e, dec)),
                  Ptr(Len(h) + 1))

\* func Prependf(e error, format string, args ...interface{}) error
\* There is no nil check: e.Error() on a nil interface is a nil dereference.
Prependf(h, dec, e, format, args) ==
    IF e = Nil THEN Panicked(h, "nil dereference")
    ELSE SetMsg(h, dec, e, PrependMsg(Sprintf(format, args), ErrorText(h, e)))

\* ------------------------------------------------------- earlier revisions

\* Two earlier revisions of the package: New_v1 and WithExitCode_v1 allocate
\* on every call; New_v2 and WithExitCode_v2 mutate a wrapped_error in place.
\* Both take the format and its arguments in New and call runtime.Callers
\* themselves.

\* the skip count of runtime.Callers called by New itself
InlineSkip == 2

\* New's own "Find our caller", called with the stack stk below New
FindCaller(stk) ==
    LET pc == RuntimeCallers(InlineSkip, 1, <<S_weNew>> \o stk)
    IN  IF Len(pc) # 1
        THEN [panic |-> TRUE, name |-> <<>>]
        ELSE [panic |-> FALSE, name |-> pc[1]]

\* New's "Format it": args_str of a format and its arguments
FormatArgs(args) ==
    IF Len(args) = 0 THEN <<>> ELSE Sprintf(args[1].s, SubSeq(args, 2, Len(args)))

\* New_v1 that gives every new wrapped_error the default code
New_v1_DefaultCode(h, mp, dec, e, args, stk) ==
    IF e = Nil THEN Panicked(h, "we.New(nil)")
    ELSE LET c == FindCaller(stk)
         IN  IF c.panic THEN Panicked(h, "caller")
             ELSE IF Len(args) > 0 /\ args[1].t # "string"
             THEN Panicked(h, "type assertion")
             ELSE Returned(
                      Append(h, WrappedError(
                                    WrapMsg(TrimName(mp, c.name), FormatArgs(args),
                                            ErrorText(h, e)),
                                    IF IsWrapped(e) THEN h[e.id].cause ELSE e,
                                    dec)),
                      Ptr(Len(h) + 1))

\* func New(e error, args_format_and_args ...interface{}) error, allocating
New_v1(h, mp, dec, e, args, stk) ==
    IF e = Nil THEN Panicked(h, "we.New(nil)")
    ELSE LET c == FindCaller(stk)
         IN  IF c.panic THEN Panicked(h, "caller")
             ELSE IF Len(args) > 0 /\ args[1].t # "string"
             THEN Panicked(h, "type assertion")
             ELSE Returned(
                      Append(h, WrappedError(
                                    WrapMsg(TrimName(mp, c.name), FormatArgs(args),
                                            ErrorText(h, e)),
                                    IF IsWrapped(e) THEN h[e.id].cause ELSE e,
                                    IF IsWrapped(e) THEN h[e.id].code ELSE dec)),
                      Ptr(Len(h) + 1))

\* func WithExitCode(code int, e error) error, allocating
WithExitCode_v1(h, code, e) ==
    IF e = Nil THEN Panicked(h, "we.WithExitCode(nil)")
    ELSE Returned(
             Append(h, WrappedError(
                           IF IsWrapped(e) THEN h[e.id].msg ELSE ErrorText(h, e),
                           IF IsWrapped(e) THEN h[e.id].cause ELSE e,
                           code)),
             Ptr(Len(h) + 1))

\* func New(e error, args_format_and_args ...interface{}) error, mutating
New_v2(h, mp, dec, e, args, stk) ==
    IF e = Nil THEN Returned(h, Nil)
    ELSE LET c == FindCaller(stk)
         IN  IF c.panic THEN Panicked(h, "caller")
             ELSE IF Len(args) > 0 /\ args[1].t # "string"
             THEN Panicked(h, "type assertion")
             ELSE LET msg == WrapMsg(TrimName(mp, c.name), FormatArgs(args),
                                     ErrorText(h, e))
                  IN  IF IsWrapped(e)
                      THEN Returned([h EXCEPT ![e.id].msg = msg], e)
                      ELSE Returned(Append(h, WrappedError(msg, e, dec)), Ptr(Len(h) + 1))

\* func WithExitCode(code int, e error) error, mutating
WithExitCode_v2(h, code, e) ==
    IF e = Nil THEN Returned(h, Nil)
    ELSE IF IsWrapped(e)
    THEN Returned([h EXCEPT ![e.id].code = code], e)
    ELSE Returned(Append(h, WrappedError(ErrorText(h, e), e, code)), Ptr(Len(h) + 1))

\* ------------------------------------------------------------------ inputs

\* The goroutine's stack at a call of the package, innermost frame first:
\* stk[1] is the function that calls the public entry point.
StackBelowMain == <<S_mainMain, S_runtimeMain, S_runtimeGoexit>>
StkDoWork == <<S_mainDoWork>> \o StackBelowMain
StkReadFile == <<S_pkgReadFile>> \o StackBelowMain
StkClosure == <<S_mainMainFunc1>> \o StackBelowMain
Stacks == {StkDoWork, StkReadFile, StkClosure}

\* New's context values, Newf's format and arguments, Prependf's, the codes
NewArgs == { <<>>, <<IntV(42)>>, <<IntV(42), StrV(S_x)>> }
NewfArgs == { <<>>, <<StrV(S_fooEqD), IntV(42)>>, <<IntV(42)>> }
PrependInputs == { [format |-> S_bummer, args |-> <<>>],
                   [format |-> S_fooS, args |-> <<StrV(S_bar)>>],
                   [format |-> S_w5x, args |-> <<IntV(42)>>] }
Codes == {0, 42}
DefaultCodes == {1, 2}

\* ----------------------------------------------------------------- actions

NoCall == [op |-> "none", e |-> Nil, stk |-> <<>>, f |-> FALSE, args |-> <<>>,
           format |-> <<>>, code |-> {}, out |-> "ok", why |-> "none", res |-> Nil,
           pre |-> <<>>, mp |-> FALSE, dec |-> 1]

InitWith(n, roots) ==
    /\ heap = <<>>
    /\ root \in roots
    /\ cur = root
    /\ MainPrefix = FALSE
    /\ DefaultExitCode = 1
    /\ nops = 0
    /\ limit = n
    /\ last = NoCall
    /\ lastCode = {}
    /\ wraps = <<>>
    /\ alt = [heap |-> <<>>, cur |-> root, out |-> "ok"]
    /\ thr = <<>>
    /\ hdr = [data |-> <<>>, len |-> 0]

\* The caller's side of a call `cur = op(cur, ...)` that ended as r: a panic
\* leaves cur as it was.  call records the inputs; annot is the annotation the
\* call makes (a sequence of zero or one).
StepCore(call, r, annot) ==
    /\ nops < limit
    /\ heap' = r.heap
    /\ cur' = IF r.out = "ok" THEN r.res ELSE cur
    /\ nops' = nops + 1
    /\ last' = [call EXCEPT !.e = cur, !.out = r.out, !.why = r.why, !.res = r.res,
                            !.pre = heap, !.mp = MainPrefix, !.dec = DefaultExitCode]
    /\ lastCode' = IF r.out = "ok" /\ r.res # Nil /\ call.code # {}
                   THEN call.code ELSE lastCode
    /\ wraps' = IF r.out = "ok" /\ r.res # Nil THEN wraps \o annot ELSE wraps
    /\ UNCHANGED <<MainPrefix, DefaultExitCode, root, limit>>

Step(call, r, annot) ==
    /\ StepCore(call, r, annot)
    /\ UNCHANGED <<alt, thr, hdr>>

WrapAnnot(stk, f, args) ==
    <<[kind |-> "wrap", F |-> IF Len(stk) > 0 THEN stk[1] ELSE <<>>, mp |-> MainPrefix, f |-> f, args |-> args,
       format |-> <<>>, dec |-> DefaultExitCode]>>

DoNew(stacks, argss) ==
    \E stk \in stacks, args \in argss :
        Step([NoCall EXCEPT !.op = "New", !.stk = stk, !.args = args],
             New(heap, MainPrefix, DefaultExitCode, cur, args, stk),
             WrapAnnot(stk, FALSE, args))

DoNewf(stacks, argss) ==
    \E stk \in stacks, args \in argss :
        Step([NoCall EXCEPT !.op = "Newf", !.stk = stk, !.f = TRUE, !.args = args],
             Newf(heap, MainPrefix, DefaultExitCode, cur, args, stk),
             WrapAnnot(stk, TRUE, args))

DoNewEC(stacks, argss, codes) ==
    \E stk \in stacks, args \in argss, code \in codes :
        Step([NoCall EXCEPT !.op = "NewEC", !.stk = stk, !.args = args, !.code = {code}],
             NewEC(heap, MainPrefix, DefaultExitCode, code, cur, args, stk),
             WrapAnnot(stk, FALSE, args))

DoNewfEC(stacks, argss, codes) ==
    \E stk \in stacks, args \in argss, code \in codes :
        Step([NoCall EXCEPT !.op = "NewfEC", !.stk = stk, !.f = TRUE, !.args = args,
                            !.code = {code}],
             NewfEC(heap, MainPrefix, DefaultExitCode, code, cur, args, stk),
             WrapAnnot(stk, TRUE, args))

DoWithExitCode(codes) ==
    \E code \in codes :
        Step([NoCall EXCEPT !.op = "WithExitCode", !.code = {code}],
             WithExitCode(heap, code, cur),
             <<>>)

DoPrependf(inputs) ==
    \E in \in inputs :
        Step([NoCall EXCEPT !.op = "Prependf", !.format = in.format, !.args = in.args],
             Prependf(heap, DefaultExitCode, cur, in.format, in.args),
             <<[kind |-> "prepend", F |-> <<>>, mp |-> MainPrefix, f |-> TRUE,
                args |-> in.args, format |-> in.format, dec |-> DefaultExitCode]>>)

\* The embedding application assigns the package variables.
SetMainPrefix ==
    /\ nops < limit
    /\ nops' = nops + 1
    /\ MainPrefix' = ~MainPrefix
    /\ UNCHANGED <<heap, cur, DefaultExitCode, root, limit, last, lastCode, wraps, alt,
                   thr, hdr>>

SetDefaultExitCode ==
    /\ nops < limit
    /\ nops' = nops + 1
    /\ \E c \in DefaultCodes : c # DefaultExitCode /\ DefaultExitCode' = c
    /\ UNCHANGED <<heap, cur, MainPrefix, root, limit, last, lastCode, wraps, alt,
                   thr, hdr>>

\* Every operation with every input, on nil and on each plain error.
Init == InitWith(MaxOps, {Nil} \cup {Plain(i) : i \in PlainIds})

Next ==
    \/ DoNew(Stacks, NewArgs)
    \/ DoNewf(Stacks, NewfArgs)
    \/ DoNewEC(Stacks, NewArgs, Codes)
    \/ DoNewfEC(Stacks, NewfArgs, Codes)
    \/ DoWithExitCode(Codes)
    \/ DoPrependf(PrependInputs)
    \/ SetMainPrefix
    \/ SetDefaultExitCode

Spec == Init /\ [][Next]_vars

\* Longer chains of calls on one evolving error, with fewer inputs per call.
InitChain == InitWith(MaxChain, {Nil, Plain(1)})

NextChain ==
    \/ DoNew({StkDoWork, StkReadFile}, {<<>>})
    \/ DoNewf({StkClosure}, {<<StrV(S_fooEqD), IntV(42)>>})
    \/ DoNewEC({StkReadFile}, {<<IntV(42), StrV(S_x)>>}, {29})
    \/ DoNewfEC({StkDoWork}, {<<StrV(S_fooEqD), IntV(42)>>}, {3})
    \/ DoWithExitCode(Codes)
    \/ DoPrependf({[format |-> S_bummer, args |-> <<>>]})
    \/ SetMainPrefix
    \/ SetDefaultExitCode

SpecChain == InitChain /\ [][NextChain]_vars

\* Calls that abort.  runtime.Callers promises only the number of frames it
\* wrote: StkNoFrame is a call at which it reports no frame above the entry
\* point, so that caller's `n != 1` branch is taken.
StkNoFrame == <<>>

InitAbort == InitWith(MaxAbort, {Nil, Plain(1)})

NextAbort ==
    \/ DoNew({StkReadFile, StkNoFrame}, {<<>>})
    \/ DoNewf({StkDoWork, StkNoFrame}, {<<StrV(S_fooEqD), IntV(42)>>, <<IntV(42)>>})
    \/ DoNewEC({StkReadFile, StkNoFrame}, {<<IntV(42)>>}, {29})
    \/ DoNewfEC({StkDoWork, StkNoFrame}, {<<StrV(S_fooEqD), IntV(42)>>, <<IntV(42)>>}, {3})
    \/ DoWithExitCode({42})

SpecAbort == InitAbort /\ [][NextAbort]_vars

\* The two earlier revisions run on the same calls: heap and cur are the
\* mutating revision's, alt the allocating revision's.
AltAfter(r) ==
    [heap |-> r.heap, cur |-> IF r.out = "ok" THEN r.res ELSE alt.cur, out |-> r.out]

DoBothNew(stacks, argss) ==
    \E stk \in stacks, args \in argss :
        /\ StepCore([NoCall EXCEPT !.op = "New", !.stk = stk, !.f = TRUE, !.args = args],
                    New_v2(heap, MainPrefix, DefaultExitCode, cur, args, stk),
                    WrapAnnot(stk, TRUE, args))
        /\ alt' = AltAfter(New_v1(alt.heap, MainPrefix, DefaultExitCode, alt.cur, args, stk))
        /\ UNCHANGED <<thr, hdr>>

DoBothWithExitCode(codes) ==
    \E code \in codes :
        /\ StepCore([NoCall EXCEPT !.op = "WithExitCode", !.code = {code}],
                    WithExitCode_v2(heap, code, cur),
                    <<>>)
        /\ alt' = AltAfter(WithExitCode_v1(alt.heap, code, alt.cur))
        /\ UNCHANGED <<thr, hdr>>

InitEquiv == InitWith(MaxEquiv, {Plain(i) : i \in PlainIds})

NextEquiv ==
    \/ DoBothNew({StkDoWork, StkReadFile}, NewfArgs)
    \/ DoBothWithExitCode(Codes)
    \/ SetMainPrefix
    \/ SetDefaultExitCode

SpecEquiv == InitEquiv /\ [][NextEquiv]_vars

\* ------------------------------------------------------ concurrent wraps

\* Two goroutines call New on the same *wrapped_error without synchronization.
\* A Go string is two words, the data pointer and the length; new_newf loads
\* them in e.Error() and stores them in `e.msg = msg`, one word at a time, in
\* an order the build chooses.  Between its loads and its stores a goroutine
\* holds the message it is about to write.

\* The string a (data, length) pair denotes: bytes past the end of the data
\* are not the message's, written "?".
StringOf(data, len) ==
    IF len <= Len(data) THEN SubSeq(data, 1, len)
    ELSE data \o [i \in 1..(len - Len(data)) |-> "?"]

\* The error the goroutines share: New from pkg.readFile, then WithExitCode(42).
SharedHeap ==
    LET r0 == New(<<>>, FALSE, 1, Plain(1), <<>>, StkReadFile)
    IN  WithExitCode(r0.heap, 42, r0.res).heap

\* The goroutines: the function each calls New from, and New's arguments.
Goroutines == {1, 2}
GoStack(t) == IF t = 1 THEN StkDoWork ELSE StkClosure
GoArgs(t) == IF t = 1 THEN <<>> ELSE <<IntV(42)>>

\* new_newf's msg with the name dropped from the format's arguments
NewNewfMsg_NoText(mp, f, args, stk, text) ==
    WrapMsg(TrimName(mp, caller(CallerSkip, <<S_weNewNewf>> \o stk).name),
            ArgsStr(f, args), <<>>)

\* new_newf's msg, from the text e.Error() returned
NewNewfMsg(mp, f, args, stk, text) ==
    WrapMsg(TrimName(mp, caller(CallerSkip, <<S_weNewNewf>> \o stk).name),
            ArgsStr(f, args), text)

Idle == [pc |-> "start", data |-> <<>>, len |-> 0, msg |-> <<>>, word |-> "none"]

InitRace ==
    /\ heap = SharedHeap
    /\ root = Plain(1)
    /\ cur = Ptr(1)
    /\ MainPrefix = FALSE
    /\ DefaultExitCode = 1
    /\ nops = 0
    /\ limit = 0
    /\ last = NoCall
    /\ lastCode = {42}
    /\ wraps = <<>>
    /\ alt = [heap |-> <<>>, cur |-> root, out |-> "ok"]
    /\ thr = [th |-> [t \in Goroutines |-> Idle], overlapped |-> FALSE]
    /\ hdr = [data |-> SharedHeap[1].msg, len |-> Len(SharedHeap[1].msg)]

\* Goroutine t is between its first load and its last store.
InFlight(t) == thr.th[t].pc \notin {"start", "done"}

\* t takes a step: it overlaps the other goroutine if that one is in flight.
ThreadStep(t, rec) ==
    thr' = [th |-> [thr.th EXCEPT ![t] = rec],
            overlapped |-> thr.overlapped \/ \E u \in Goroutines \ {t} : InFlight(u)]

RaceFrame == UNCHANGED <<cur, MainPrefix, DefaultExitCode, root, nops, limit, last,
                         lastCode, wraps, alt>>

\* e.Error(): the first word of e.msg is loaded
LoadFirst(t) ==
    /\ thr.th[t].pc = "start"
    /\ \E w \in {"data", "len"} :
           ThreadStep(t, [thr.th[t] EXCEPT !.pc = "loaded1", !.word = w,
                                           !.data = IF w = "data" THEN hdr.data ELSE <<>>,
                                           !.len = IF w = "len" THEN hdr.len ELSE 0])
    /\ UNCHANGED <<heap, hdr>>
    /\ RaceFrame

\* e.Error(): the other word is loaded, and msg is built from the text read
LoadSecond(t) ==
    /\ thr.th[t].pc = "loaded1"
    /\ LET data == IF thr.th[t].word = "data" THEN thr.th[t].data ELSE hdr.data
           len == IF thr.th[t].word = "len" THEN thr.th[t].len ELSE hdr.len
       IN  ThreadStep(t, [thr.th[t] EXCEPT
                              !.pc = "built", !.word = "none", !.data = data, !.len = len,
                              !.msg = NewNewfMsg(MainPrefix, FALSE, GoArgs(t),
                                                 <<S_weNew>> \o GoStack(t),
                                                 StringOf(data, len))])
    /\ UNCHANGED <<heap, hdr>>
    /\ RaceFrame

\* e.msg = msg: the first word is stored
StoreFirst(t) ==
    /\ thr.th[t].pc = "built"
    /\ \E w \in {"data", "len"} :
           /\ ThreadStep(t, [thr.th[t] EXCEPT !.pc = "stored1", !.word = w])
           /\ hdr' = IF w = "data" THEN [hdr EXCEPT !.data = thr.th[t].msg]
                     ELSE [hdr EXCEPT !.len = Len(thr.th[t].msg)]
    /\ heap' = [heap EXCEPT ![1].msg = StringOf(hdr'.data, hdr'.len)]
    /\ RaceFrame

\* e.msg = msg: the other word is stored, and new_newf returns e
StoreSecond(t) ==
    /\ thr.th[t].pc = "stored1"
    /\ ThreadStep(t, [thr.th[t] EXCEPT !.pc = "done", !.word = "none"])
    /\ hdr' = IF thr.th[t].word = "len" THEN [hdr EXCEPT !.data = thr.th[t].msg]
              ELSE [hdr EXCEPT !.len = Len(thr.th[t].msg)]
    /\ heap' = [heap EXCEPT ![1].msg = StringOf(hdr'.data, hdr'.len)]
    /\ RaceFrame

NextRace ==
    \E t \in Goroutines :
        \/ LoadFirst(t)
        \/ LoadSecond(t)
        \/ StoreFirst(t)
        \/ StoreSecond(t)

SpecRace == InitRace /\ [][NextRace]_vars

\* ------------------------------------------------------ what the claims say

WrapOps == {"New", "Newf", "NewEC", "NewfEC"}
CodeOps == {"WithExitCode", "NewEC", "NewfEC"}
MsgOps == {"New", "Newf", "Prependf"}

\* The last call was made on a non-nil error and returned.
LastOk(ops) == last.op \in ops /\ last.e # Nil /\ last.out = "ok"

\* The values joined by single commas, each as %v renders it.
RECURSIVE JoinComma(_)
JoinComma(args) ==
    IF Len(args) = 0 THEN <<>>
    ELSE IF Len(args) = 1 THEN PrintV(args[1])
    ELSE PrintV(args[1]) \o <<",">> \o JoinComma(Tail(args))

\* The name a message shows for the calling function F under the flag mp.
ShownName(mp, F) ==
    IF mp THEN F
    ELSE IF Len(F) >= 5 /\ SubSeq(F, 1, 5) = S_main THEN SubSeq(F, 6, Len(F))
    ELSE F

\* The text of msg before its first "(".
RECURSIVE NameOf(_)
NameOf(msg) ==
    IF Len(msg) = 0 \/ Head(msg) = "(" THEN <<>>
    ELSE <<Head(msg)>> \o NameOf(Tail(msg))

\* The context string of a wrap with the given arguments.
ContextOf(f, args) ==
    IF Len(args) = 0 THEN <<>>
    ELSE IF f THEN Sprintf(args[1].s, Tail(args))
    ELSE JoinComma(args)

\* "F(ctx): " of a call-site annotation, "prefix: " of a Prependf.
AnnotText(w) ==
    IF w.kind = "wrap"
    THEN ShownName(w.mp, w.F) \o <<"(">> \o ContextOf(w.f, w.args) \o <<")", ":", " ">>
    ELSE Sprintf(w.format, w.args) \o <<":", " ">>

\* The annotations ws[1..n], the last applied first.
RECURSIVE ChainText(_, _)
ChainText(ws, n) ==
    IF n = 0 THEN <<>> ELSE AnnotText(ws[n]) \o ChainText(ws, n - 1)

\* Every wrapped_error but heap[id] is as it was before the last call.
OthersUnchanged(id) ==
    /\ Len(heap) = Len(last.pre)
    /\ \A j \in 1..Len(heap) : j # id => heap[j] = last.pre[j]

\* ------------------------------------------------------------------ claims

\* C1: starting from a plain error e, after any sequence of New, Newf,
\* Prependf, WithExitCode, NewEC and NewfEC calls, each on the result of the
\* previous one, Cause(result) is e itself.
C1_CauseIsRoot ==
    root.k = "plain" => Cause(heap, cur) = root

C1_Witness ==
    /\ root.k = "plain" /\ IsWrapped(cur)
    /\ nops = MaxChain /\ Len(wraps) = MaxChain
    /\ \E i \in 1..Len(wraps) : wraps[i].kind = "prepend"
    /\ lastCode # {}
    /\ Cause(heap, cur) = root

\* C2: New, Newf and Prependf on an already annotated error return the very
\* same object with only its message replaced (cause, code and every other
\* object untouched), so a holder of the old reference reads the new message,
\* and a code set earlier survives the call.
C2_MutateInPlace ==
    (LastOk(MsgOps) /\ IsWrapped(last.e)) =>
        /\ last.res = last.e
        /\ heap[last.e.id].cause = last.pre[last.e.id].cause
        /\ heap[last.e.id].code = last.pre[last.e.id].code
        /\ OthersUnchanged(last.e.id)
        /\ ErrorText(heap, last.e) = ErrorText(heap, last.res)
        /\ ErrorText(heap, last.e) # ErrorText(last.pre, last.e)
        /\ lastCode # {} => lastCode = {ExitCode(heap, DefaultExitCode, last.res)}

C2_Witness ==
    /\ LastOk({"New"}) /\ IsWrapped(last.e)
    /\ lastCode = {42} /\ DefaultExitCode # 42
    /\ last.res = last.e
    /\ heap[last.e.id].code = 42
    /\ Len(wraps) >= 3

\* C3: New, Newf, NewEC, NewfEC and WithExitCode on a nil error return nil:
\* no panic, whatever the code and the arguments, also where resolving the
\* caller would fail or the format is not a string, and no wrapped_error is
\* allocated or changed.
C3_NilPassThrough ==
    (last.op \in WrapOps \cup {"WithExitCode"} /\ last.e = Nil) =>
        /\ last.out = "ok"
        /\ last.res = Nil
        /\ cur = Nil
        /\ heap = last.pre

\* NewfEC on nil from a call at which the caller cannot be resolved, with an
\* int where the format should be.
C3_Witness ==
    /\ last.op = "NewfEC" /\ last.e = Nil
    /\ last.stk = StkNoFrame
    /\ last.args = <<IntV(42)>>
    /\ last.out = "ok" /\ last.res = Nil
    /\ nops = 2

\* C4: Prependf on a nil error yields nil and does not panic.
C4_PrependfNilPassThrough ==
    (last.op = "Prependf" /\ last.e = Nil) =>
        last.out = "ok" /\ last.res = Nil

\* C5: after any sequence of calls on one evolving non-nil error, ExitCode of
\* the result is the code of the most recent WithExitCode, NewEC or NewfEC
\* (wraps in between do not reset it); and ExitCode(WithExitCode(c, e)) = c.
C5_LastCodeWins ==
    /\ (root # Nil /\ lastCode # {}) =>
           lastCode = {ExitCode(heap, DefaultExitCode, cur)}
    /\ LastOk({"WithExitCode"}) =>
           last.code = {ExitCode(heap, DefaultExitCode, last.res)}

C5_Witness ==
    /\ root # Nil /\ nops = MaxChain
    /\ last.op = "Prependf" /\ IsWrapped(last.e)
    /\ last.pre[last.e.id].code = 0
    /\ lastCode = {0}
    /\ ExitCode(heap, DefaultExitCode, cur) = 0
    /\ \E i \in 1..Len(wraps) : wraps[i].kind = "wrap"

\* C6: ExitCode is total: the stored code for an annotated error, and the
\* current DefaultExitCode for nil and for every plain error.
C6_ExitCodeTotal ==
    /\ ExitCode(heap, DefaultExitCode, Nil) = DefaultExitCode
    /\ \A i \in PlainIds : ExitCode(heap, DefaultExitCode, Plain(i)) = DefaultExitCode
    /\ \A j \in 1..Len(heap) : ExitCode(heap, DefaultExitCode, Ptr(j)) = heap[j].code

C6_Witness ==
    /\ DefaultExitCode = 2
    /\ IsWrapped(cur) /\ heap[cur.id].code = 1
    /\ ExitCode(heap, DefaultExitCode, cur) = 1
    /\ ExitCode(heap, DefaultExitCode, root) = 2

\* C7: New on a plain error e with values v1..vn, called from F, gives
\* "F(v1,...,vn): " + e.Error(): single commas, no trailing comma, "F(): "
\* for n = 0; Newf gives "F(<format applied to the arguments>): " + e.Error().
\* F is shown as C10 says.
C7_MessageFormat ==
    /\ (LastOk({"New"}) /\ last.e.k = "plain") =>
           ErrorText(heap, last.res) =
               ShownName(last.mp, last.stk[1]) \o <<"(">> \o JoinComma(last.args)
                   \o <<")", ":", " ">> \o PlainText(last.e.id)
    /\ (LastOk({"Newf"}) /\ last.e.k = "plain" /\ Len(last.args) > 0) =>
           ErrorText(heap, last.res) =
               ShownName(last.mp, last.stk[1]) \o <<"(">>
                   \o Sprintf(last.args[1].s, Tail(last.args))
                   \o <<")", ":", " ">> \o PlainText(last.e.id)

C7_Witness ==
    /\ LastOk({"New"}) /\ last.e = Plain(1)
    /\ last.args = <<IntV(42), StrV(S_x)>>
    /\ ErrorText(heap, last.res) =
           S_pkgReadFile \o <<"(", "4", "2", ",", "x", ")", ":", " ">> \o S_diskFull

\* C8: after N wraps of one evolving error, starting from the plain error e,
\* the message is the N annotations, the last applied first, each once,
\* followed by e's own text.
C8_ChainMessage ==
    (root.k = "plain" /\ IsWrapped(cur)) =>
        ErrorText(heap, cur) = ChainText(wraps, Len(wraps)) \o PlainText(root.id)

C8_Witness ==
    /\ root = Plain(1) /\ IsWrapped(cur)
    /\ Len(wraps) = 3
    /\ \A i \in 1..3 : wraps[i].kind = "wrap"
    /\ wraps[1].F # wraps[2].F /\ wraps[2].F # wraps[3].F /\ wraps[1].F # wraps[3].F
    /\ ErrorText(heap, cur) =
           AnnotText(wraps[3]) \o AnnotText(wraps[2]) \o AnnotText(wraps[1]) \o S_diskFull

\* C9: New, Newf, NewEC and NewfEC called from F attribute the annotation to
\* F: never to the entry point, to new_newf or to caller.
C9_AttributesCaller ==
    LastOk(WrapOps) =>
        /\ NameOf(ErrorText(heap, last.res)) = ShownName(last.mp, last.stk[1])
        /\ NameOf(ErrorText(heap, last.res)) \notin
               {S_weNew, S_weNewf, S_weNewEC, S_weNewfEC, S_weNewNewf, S_weCaller,
                S_runtimeCallers}

C9_Witness ==
    /\ LastOk({"NewfEC"}) /\ last.mp
    /\ last.stk[1] = S_mainDoWork
    /\ NameOf(ErrorText(heap, last.res)) = S_mainDoWork

\* C10: with MainPrefix false a resolved name that starts with "main." loses
\* exactly those five characters; any other name, and every name when
\* MainPrefix is true, is used as it is.  The flag is the one at the call.
C10_MainPrefixTrim ==
    LastOk(WrapOps) =>
        LET F == last.stk[1]
            shown == NameOf(ErrorText(heap, last.res))
        IN  /\ (~last.mp /\ HasPrefix(F, S_main)) =>
                   (S_main \o shown = F /\ Len(shown) = Len(F) - 5)
            /\ (~last.mp /\ ~HasPrefix(F, S_main)) => shown = F
            /\ last.mp => shown = F

C10_Witness ==
    /\ LastOk({"New"}) /\ ~last.mp /\ MainPrefix
    /\ last.stk[1] = S_mainMainFunc1
    /\ NameOf(ErrorText(heap, last.res)) = S_main \o <<"f", "u", "n", "c", "1">>

\* C11: NewEC(c, e, args...) called from F gives what WithExitCode(c, New(e,
\* args...)) gives with New called from F, and NewfEC likewise with Newf: the
\* message carries F's annotation, the code is c, the cause is the original,
\* and an already annotated e is that same object.
C11_CompositeEqualsSequence ==
    /\ (last.op = "NewEC" /\ last.e # Nil) =>
           LET r1 == New(last.pre, last.mp, last.dec, last.e, last.args, last.stk)
               r2 == WithExitCode(r1.heap, CHOOSE c \in last.code : TRUE, r1.res)
           IN  /\ r1.out = last.out
               /\ last.out = "ok" => (last.res = r2.res /\ heap = r2.heap)
    /\ (last.op = "NewfEC" /\ last.e # Nil) =>
           LET r1 == Newf(last.pre, last.mp, last.dec, last.e, last.args, last.stk)
               r2 == WithExitCode(r1.heap, CHOOSE c \in last.code : TRUE, r1.res)
           IN  /\ r1.out = last.out
               /\ last.out = "ok" => (last.res = r2.res /\ heap = r2.heap)
    /\ LastOk({"NewEC", "NewfEC"}) =>
           /\ ErrorText(heap, last.res) =
                  ShownName(last.mp, last.stk[1]) \o <<"(">>
                      \o ContextOf(last.f, last.args) \o <<")", ":", " ">>
                      \o ErrorText(last.pre, last.e)
           /\ last.code = {ExitCode(heap, DefaultExitCode, last.res)}
           /\ Cause(heap, last.res) = Cause(last.pre, last.e)
           /\ IsWrapped(last.e) => last.res = last.e

C11_Witness ==
    /\ LastOk({"NewEC"}) /\ IsWrapped(last.e)
    /\ last.code = {42} /\ last.args = <<IntV(42), StrV(S_x)>>
    /\ last.pre[last.e.id].code = 0
    /\ last.res = last.e /\ heap[last.e.id].code = 42
    /\ NameOf(ErrorText(heap, last.res)) = S_doWork

\* C12: Prependf on a non-nil error e gives "<prefix>: " + e.Error(), the
\* prefix being the format applied to the arguments and no caller name; an
\* annotated e is mutated in place and returned (cause and code untouched), a
\* plain e gets a new annotated error with cause e and code DefaultExitCode.
\* A New from F after it gives "F(): <prefix>: <e text>".
C12_Prependf ==
    /\ LastOk({"Prependf"}) =>
           /\ ErrorText(heap, last.res) =
                  Sprintf(last.format, last.args) \o <<":", " ">>
                      \o ErrorText(last.pre, last.e)
           /\ IsWrapped(last.e) =>
                  /\ last.res = last.e
                  /\ heap[last.e.id].cause = last.pre[last.e.id].cause
                  /\ heap[last.e.id].code = last.pre[last.e.id].code
                  /\ OthersUnchanged(last.e.id)
           /\ ~IsWrapped(last.e) =>
                  /\ last.res = Ptr(Len(last.pre) + 1)
                  /\ Len(heap) = Len(last.pre) + 1
                  /\ heap[last.res.id].cause = last.e
                  /\ heap[last.res.id].code = last.dec
                  /\ \A j \in 1..Len(last.pre) : heap[j] = last.pre[j]
    /\ (LastOk({"New"}) /\ last.args = <<>> /\ root.k = "plain"
            /\ Len(wraps) = 2 /\ wraps[1].kind = "prepend") =>
           ErrorText(heap, last.res) =
               ShownName(last.mp, last.stk[1]) \o <<"(", ")", ":", " ">>
                   \o Sprintf(wraps[1].format, wraps[1].args) \o <<":", " ">>
                   \o PlainText(root.id)

C12_Witness ==
    /\ LastOk({"New"}) /\ last.args = <<>> /\ root = Plain(1)
    /\ Len(wraps) = 2 /\ wraps[1].kind = "prepend"
    /\ ErrorText(heap, last.res) =
           S_pkgReadFile \o <<"(", ")", ":", " ">> \o S_bummer \o <<":", " ">> \o S_diskFull

\* C13: WithExitCode never changes the message and adds no call-site
\* information.  On an annotated e it writes only the code and returns e; on
\* a plain e it allocates: cause e, message e's own, code c.
C13_WithExitCodeFrame ==
    LastOk({"WithExitCode"}) =>
        /\ ErrorText(heap, last.res) = ErrorText(last.pre, last.e)
        /\ IsWrapped(last.e) =>
               /\ last.res = last.e
               /\ heap[last.e.id].msg = last.pre[last.e.id].msg
               /\ heap[last.e.id].cause = last.pre[last.e.id].cause
               /\ last.code = {heap[last.e.id].code}
               /\ OthersUnchanged(last.e.id)
        /\ ~IsWrapped(last.e) =>
               /\ last.res = Ptr(Len(last.pre) + 1)
               /\ heap = Append(last.pre,
                                WrappedError(PlainText(last.e.id), last.e,
                                             CHOOSE c \in last.code : TRUE))

C13_Witness ==
    /\ LastOk({"WithExitCode"}) /\ last.e = Plain(2)
    /\ last.code = {42}
    /\ ErrorText(heap, last.res) = S_eof
    /\ heap[last.res.id].cause = Plain(2)

\* C14: the cause stored in an annotated error is never an annotated error;
\* so Cause(Cause(x)) = Cause(x), and Cause of nil or of a plain error is the
\* input itself.
C14_CauseNeverAnnotated ==
    /\ \A j \in 1..Len(heap) : ~IsWrapped(heap[j].cause)
    /\ \A x \in {Nil, root, cur} \cup {Ptr(j) : j \in 1..Len(heap)} :
           /\ Cause(heap, Cause(heap, x)) = Cause(heap, x)
           /\ ~IsWrapped(x) => Cause(heap, x) = x

C14_Witness ==
    /\ IsWrapped(cur) /\ Len(wraps) >= 3
    /\ \E i \in 1..Len(wraps) : wraps[i].kind = "prepend"
    /\ \E i \in 1..Len(wraps) : wraps[i].kind = "wrap"
    /\ heap[cur.id].cause = root /\ root.k = "plain"

\* C16: Newf and NewfEC on a non-nil error with a first format argument that
\* is no string fail: the call panics and returns no annotated error, and the
\* error is as it was.
C16_NonStringFormatFails ==
    (last.op \in {"Newf", "NewfEC"} /\ last.e # Nil
         /\ Len(last.args) > 0 /\ last.args[1].t # "string") =>
        /\ last.out = "panic"
        /\ last.why \in {"type assertion", "caller"}
        /\ cur = last.e
        /\ heap = last.pre

C16_Witness ==
    /\ last.op = "NewfEC" /\ IsWrapped(last.e)
    /\ last.args = <<IntV(42)>>
    /\ last.out = "panic" /\ last.why = "type assertion" /\ cur = last.e

\* C19: the default exit code is captured when a plain error is first
\* wrapped: an annotated error never passed through WithExitCode keeps the
\* DefaultExitCode of its creation, while ExitCode of plain and nil errors
\* follows the current DefaultExitCode.
C19_DefaultCapturedAtCreation ==
    /\ (root.k = "plain" /\ IsWrapped(cur) /\ lastCode = {}) =>
           ExitCode(heap, DefaultExitCode, cur) = wraps[1].dec
    /\ ExitCode(heap, DefaultExitCode, root) = DefaultExitCode
    /\ ExitCode(heap, DefaultExitCode, Nil) = DefaultExitCode

C19_Witness ==
    /\ root.k = "plain" /\ IsWrapped(cur) /\ lastCode = {}
    /\ wraps[1].dec = 1 /\ DefaultExitCode = 2
    /\ LastOk(MsgOps) /\ IsWrapped(last.e) /\ last.dec = 2
    /\ ExitCode(heap, DefaultExitCode, cur) = 1
    /\ ExitCode(heap, DefaultExitCode, root) = 2

\* The frame each public entry point pushes.
EntryFrame(op) ==
    IF op = "New" THEN S_weNew
    ELSE IF op = "Newf" THEN S_weNewf
    ELSE IF op = "NewEC" THEN S_weNewEC
    ELSE S_weNewfEC

\* runtime.Callers reports no frame at the depth the last call asked for.
LastHadNoFrame ==
    Len(RuntimeCallers(CallerSkip, 1, <<S_weCaller, S_weNewNewf, EntryFrame(last.op)>> \o last.stk)) # 1

\* C15: if the caller-resolver cannot obtain exactly one frame at the
\* requested depth during a wrap of a non-nil error, the call panics; no
\* annotated error with a wrong or empty caller name is returned or written.
C15_ResolverFailureAborts ==
    /\ (last.op \in WrapOps /\ last.e # Nil /\ LastHadNoFrame) =>
           /\ last.out = "panic"
           /\ last.why = "caller"
           /\ cur = last.e
           /\ heap = last.pre
    /\ LastOk(WrapOps) =>
           /\ ~LastHadNoFrame
           /\ NameOf(ErrorText(heap, last.res)) # <<>>
           /\ NameOf(ErrorText(heap, last.res)) = ShownName(last.mp, last.stk[1])

C15_Witness ==
    /\ last.op = "NewEC" /\ IsWrapped(last.e) /\ last.stk = StkNoFrame
    /\ last.out = "panic" /\ last.why = "caller"
    /\ heap = last.pre /\ cur = last.e

\* C18: when a wrap of an already annotated error aborts (the caller is not
\* resolved, or the format is no string), the error is exactly as before the
\* call: message, cause and code.
C18_AbortLeavesErrorUnchanged ==
    (last.op \in WrapOps /\ IsWrapped(last.e) /\ last.out = "panic") =>
        /\ heap = last.pre
        /\ cur = last.e
        /\ ErrorText(heap, cur) = ErrorText(last.pre, last.e)
        /\ Cause(heap, cur) = Cause(last.pre, last.e)
        /\ ExitCode(heap, DefaultExitCode, cur) = ExitCode(last.pre, last.dec, last.e)

C18_Witness ==
    /\ last.op = "NewfEC" /\ IsWrapped(last.e)
    /\ last.out = "panic" /\ last.why = "type assertion"
    /\ nops = MaxAbort /\ Len(wraps) = 2
    /\ heap = last.pre /\ cur = last.e

\* C20: along one chain of New and WithExitCode calls on a non-nil error,
\* each on the previous result, the allocating revision and the mutating
\* revision return errors with equal message, equal cause and equal code
\* after every step.
C20_RevisionsAgree ==
    /\ alt.out = last.out
    /\ IsWrapped(alt.cur) <=> IsWrapped(cur)
    /\ ErrorText(alt.heap, alt.cur) = ErrorText(heap, cur)
    /\ Cause(alt.heap, alt.cur) = Cause(heap, cur)
    /\ ExitCode(alt.heap, DefaultExitCode, alt.cur) = ExitCode(heap, DefaultExitCode, cur)

C20_Witness ==
    /\ nops = MaxEquiv /\ Len(wraps) = 2
    /\ lastCode = {42} /\ LastOk({"New"}) /\ last.dec = 2
    /\ Len(heap) = 1 /\ Len(alt.heap) = 3
    /\ alt.cur = Ptr(3) /\ cur = Ptr(1)
    /\ ExitCode(alt.heap, DefaultExitCode, alt.cur) = 42
    /\ ErrorText(alt.heap, alt.cur) = ErrorText(heap, cur)

\* The annotation goroutine t adds, and the message before the goroutines ran.
GoAnnot(t) ==
    ShownName(MainPrefix, GoStack(t)[1]) \o <<"(">> \o JoinComma(GoArgs(t))
        \o <<")", ":", " ">>
RaceStartMsg == S_pkgReadFile \o <<"(", ")", ":", " ">> \o S_diskFull
BothDone == \A t \in Goroutines : thr.th[t].pc = "done"

\* C17: two New calls on the same annotated error, run one after the other
\* in either order, leave a message with both annotations; run concurrently
\* they race on msg, and cause and code are not touched by the race.  (That a
\* message with only one of the annotations is reachable is C17_Witness.)
C17_RaceOnMessage ==
    /\ heap[1].cause = Plain(1)
    /\ heap[1].code = 42
    /\ Len(heap) = 1
    /\ (BothDone /\ ~thr.overlapped) =>
           ErrorText(heap, cur) \in
               { GoAnnot(1) \o GoAnnot(2) \o RaceStartMsg,
                 GoAnnot(2) \o GoAnnot(1) \o RaceStartMsg }

\* A lost update: both calls returned and the message has only goroutine 2's
\* annotation.
C17_Witness ==
    /\ BothDone /\ thr.overlapped
    /\ ErrorText(heap, cur) = GoAnnot(2) \o RaceStartMsg
    /\ heap[1].cause = Plain(1) /\ heap[1].code = 42

====
